---- MODULE Spec2Model ----
(***************************************************************************)
(* Model of the AI content evaluator: the criteria registry, the decision  *)
(* policy, the judge-response parser, the score aggregator                 *)
(* (src/utils/data_model.py, src/utils/evaluator.py) and the Streamlit     *)
(* session that stores evaluations and attaches human judgments            *)
(* (src/app.py).                                                           *)
(*                                                                         *)
(* Numbers.  Scores are Python floats; the model keeps them as integers in *)
(* thousandths (3.0 is 3000, 2.499 is 2499).  Weights are integers in      *)
(* hundredths (0.30 is 30).  round(x, 2) rounds to the nearest hundredth.   *)
(* When the exact quotient lies halfway between two hundredths, the float  *)
(* the code holds lies just above or just below it, so round() goes up or  *)
(* down with the binary error the summation accumulated: the side is an    *)
(* input, tie, of every operator that rounds.  Non-finite floats (NaN,     *)
(* Infinity) are outside the model.                                        *)
(*                                                                         *)
(* Optional values.  A Python Optional field is a set: None is {}, a       *)
(* present value v is {v}.                                                 *)
(***************************************************************************)
EXTENDS Integers, Sequences, FiniteSets, TLC

VARIABLES evaluations, show_last_eval, uuid_counter, outcome, call, ret

vars == <<evaluations, show_last_eval, uuid_counter, outcome, call, ret>>

None == {}

Some(v) == {v}

TheValue(opt) == CHOOSE v \in opt : TRUE

(***************************************************************************)
(* Criteria registry (data_model.py)                                       *)
(***************************************************************************)
MARKETING_COPY_CRITERIA ==
    [ cultural_appropriateness |-> [name |-> "Cultural Appropriateness", weight |-> 30],
      persuasiveness           |-> [name |-> "Persuasiveness", weight |-> 25],
      brand_voice              |-> [name |-> "Brand Voice Consistency", weight |-> 20],
      grammar_fluency          |-> [name |-> "Grammar & Fluency", weight |-> 15],
      semantic_accuracy        |-> [name |-> "Semantic Accuracy", weight |-> 10] ]

BILINGUAL_COMPLIANCE_CRITERIA ==
    [ completeness          |-> [name |-> "Completeness", weight |-> 25],
      accuracy              |-> [name |-> "Translation Accuracy", weight |-> 25],
      fluency               |-> [name |-> "Fluency", weight |-> 20],
      terminology           |-> [name |-> "Terminology Consistency", weight |-> 15],
      regulatory_compliance |-> [name |-> "Regulatory Compliance", weight |-> 15] ]

RegisteredUseCases == {"marketing_copy", "bilingual_compliance"}

\* Decision thresholds, in thousandths.
AUTO_PASS_THRESHOLD == 4000

AUTO_FAIL_THRESHOLD == 2500

\* Mutant: the pass threshold taken as exclusive.
get_decision_exclusive_pass(overall_score) ==
    IF overall_score > AUTO_PASS_THRESHOLD THEN "auto_pass"
    ELSE IF overall_score < AUTO_FAIL_THRESHOLD THEN "auto_fail"
    ELSE "human_review"

get_decision(overall_score) ==
    IF overall_score >= AUTO_PASS_THRESHOLD THEN "auto_pass"
    ELSE IF overall_score < AUTO_FAIL_THRESHOLD THEN "auto_fail"
    ELSE "human_review"

CriterionScore(score, explanation, weight) ==
    [score |-> score, explanation |-> explanation, weight |-> weight]

\* The dataclass constructor: the human fields default to None.
Evaluation(id, timestamp, use_case, content, context, ai_scores, ai_overall_score, ai_decision) ==
    [ id |-> id, timestamp |-> timestamp, use_case |-> use_case,
      content |-> content, context |-> context,
      ai_scores |-> ai_scores, ai_overall_score |-> ai_overall_score,
      ai_decision |-> ai_decision,
      human_scores |-> None, human_overall_score |-> None,
      human_decision |-> None, human_feedback |-> None ]

(***************************************************************************)
(* to_dict / from_dict.  A Python dict is [type |-> "dict", items |-> m],   *)
(* m the mapping from its keys to their values; a dataclass instance is    *)
(* the record of its fields.  The mapping of criterion keys to scores      *)
(* (ai_scores, human_scores) is a dict on both sides and stays a plain     *)
(* mapping.                                                                *)
(***************************************************************************)
PyDict(items) == [type |-> "dict", items |-> items]

\* isinstance(v, dict)
IsDict(v) == "type" \in DOMAIN v /\ v.type = "dict"

\* dataclasses.asdict on a mapping of CriterionScore: every instance becomes
\* the dict of its fields.
AsDictScores(scores) == [k \in DOMAIN scores |-> PyDict(scores[k])]

\* asdict(self): the dict of the twelve fields, nested instances converted.
to_dict(evaluation) ==
    PyDict([evaluation EXCEPT
                !.ai_scores = AsDictScores(@),
                !.human_scores = IF @ = None THEN None ELSE Some(AsDictScores(TheValue(@)))])

\* {k: CriterionScore(**v) if isinstance(v, dict) else v for k, v in ...}
FromDictScores(scores) ==
    [k \in DOMAIN scores |->
        IF IsDict(scores[k])
        THEN CriterionScore(scores[k].items.score, scores[k].items.explanation,
                            scores[k].items.weight)
        ELSE scores[k]]

\* data.get('human_scores') is truthy: neither None nor an empty dict.
HasHumanScores(data) ==
    /\ "human_scores" \in DOMAIN data.items
    /\ data.items.human_scores # None
    /\ TheValue(data.items.human_scores) # <<>>

\* Mutant: only ai_scores is converted back; human_scores stays as loaded.
from_dict_ai_scores_only(data) ==
    [data.items EXCEPT !.ai_scores = FromDictScores(@)]

\* Evaluation.from_dict: cls(**data) after the nested dicts are converted.
from_dict(data) ==
    LET ai_converted ==
            IF "ai_scores" \in DOMAIN data.items
            THEN [data.items EXCEPT !.ai_scores = FromDictScores(@)]
            ELSE data.items
    IN  IF HasHumanScores(data)
        THEN [ai_converted EXCEPT !.human_scores = Some(FromDictScores(TheValue(@)))]
        ELSE ai_converted

(***************************************************************************)
(* Arithmetic                                                              *)
(***************************************************************************)
RECURSIVE SumOver(_, _)
SumOver(f, keys) ==
    IF keys = {} THEN 0
    ELSE LET k == CHOOSE x \in keys : TRUE
         IN  f[k] + SumOver(f, keys \ {k})

TieDirections == {"down", "up"}

\* The integer nearest to n / d (d > 0); an exact half goes the way of tie.
RoundNearest(n, d, tie) ==
    LET q == n \div d
        r == n % d
    IN  IF 2 * r < d THEN q
        ELSE IF 2 * r > d THEN q + 1
        ELSE IF tie = "up" THEN q + 1 ELSE q

\* round(total_score / total_weight, 2): total_score is in (thousandths x
\* hundredths), total_weight in hundredths, the result in thousandths.
Round2(total_score, total_weight, tie) ==
    10 * RoundNearest(total_score, 10 * total_weight, tie)

(***************************************************************************)
(* Judge text and JSON values                                              *)
(*                                                                         *)
(* A raw judge text is a sequence of lines plus the JSON document that its *)
(* JSON_LINE stands for.  A line is a fence (three backquotes, with or     *)
(* without the word json: FENCE_JSON, FENCE), blank                        *)
(* (""), JSON_LINE (the complete JSON document) or JUNK_LINE (prose).      *)
(*                                                                         *)
(* A JSON document is [type, members]: type is the JSON type; members is,  *)
(* for an object, the mapping from its keys to their values, for an array  *)
(* of strings or a string, a mapping whose domain holds the criterion keys *)
(* for which Python's "key in value" is true.                              *)
(*                                                                         *)
(* A member value is [type, fields, score, explanation, weight]: fields is *)
(* the set of keys the nested object has; score is a JSON scalar.          *)
(***************************************************************************)
JSON_LINE == "<json>"

JUNK_LINE == "not json"

FENCE == "<fence>"

FENCE_JSON == "<fence>json"

FenceLines == {FENCE, FENCE_JSON}

JNumber(n) == [json |-> "number", num |-> n, str |-> ""]

JString(s) == [json |-> "string", num |-> 0, str |-> s]

JNull == [json |-> "null", num |-> 0, str |-> ""]

\* Strings float() accepts, with their value in thousandths.
NumericStrings == [s \in {"4", "4.5", "2.499"} |-> CASE s = "4" -> 4000 [] s = "4.5" -> 4500 [] OTHER -> 2499]

\* float(x) on a JSON scalar: [raised, value].
Float(x) ==
    CASE x.json = "number" -> [raised |-> FALSE, value |-> x.num]
      [] x.json = "string" ->
            IF x.str \in DOMAIN NumericStrings
            THEN [raised |-> FALSE, value |-> NumericStrings[x.str]]
            ELSE [raised |-> TRUE, value |-> 0]
      [] OTHER -> [raised |-> TRUE, value |-> 0]

\* str.strip() on the text: leading and trailing blank lines disappear.
RECURSIVE StripLeft(_)
StripLeft(lines) ==
    IF lines # <<>> /\ Head(lines) = "" THEN StripLeft(Tail(lines)) ELSE lines

RECURSIVE StripRight(_)
StripRight(lines) ==
    IF lines # <<>> /\ lines[Len(lines)] = ""
    THEN StripRight(SubSeq(lines, 1, Len(lines) - 1))
    ELSE lines

Strip(lines) == StripRight(StripLeft(lines))

\* response_text.startswith(three backquotes)
StartsWithFence(lines) == lines # <<>> /\ Head(lines) \in FenceLines

\* Mutant: only the opening fence line is dropped (lines[1:]).
DropFirstOnly(lines) == SubSeq(lines, 2, Len(lines))

\* "\n".join(lines[1:-1])
DropFirstAndLast(lines) == SubSeq(lines, 2, Len(lines) - 1)

IsNotBlank(line) == line # ""

\* json.loads: the text is JSON iff, whitespace aside, it is the document.
JsonLoads(lines, doc) ==
    IF SelectSeq(lines, IsNotBlank) = <<JSON_LINE>>
    THEN [raised |-> FALSE, value |-> doc]
    ELSE [raised |-> TRUE, value |-> doc]

\* "key in scores_dict" raises TypeError on a number, a boolean or null.
InRaises(scores_dict) == scores_dict.type \notin {"object", "array", "string"}

\* Building CriterionScore for a key that is in scores_dict raises when
\* scores_dict[key] is not subscriptable by a string, lacks "score" or
\* "explanation", or has a score float() rejects.
EntryRaises(scores_dict, key) ==
    \/ scores_dict.type # "object"
    \/ LET entry == scores_dict.members[key]
       IN  \/ entry.type # "object"
           \/ "score" \notin entry.fields
           \/ Float(entry.score).raised
           \/ "explanation" \notin entry.fields

\* The text handed to json.loads: stripped, and without its first and last
\* line when it starts with a fence.
JsonBody(lines) ==
    LET stripped == Strip(lines)
    IN  IF StartsWithFence(stripped) THEN DropFirstAndLast(stripped) ELSE stripped

\* Mutant: a weight the judge supplies overrides the registry's.
ParsedCriterionScore_judge_weight(entry, info) ==
    CriterionScore(Float(entry.score).value, entry.explanation,
                   IF "weight" \in entry.fields THEN entry.weight ELSE info.weight)

\* CriterionScore for a key the judge gave: the weight is the registry's.
ParsedCriterionScore(entry, info) ==
    CriterionScore(Float(entry.score).value, entry.explanation, info.weight)

\* Mutant: a key the judge left out is scored as the lowest mark.
MissingCriterionScore_lowest(info) ==
    CriterionScore(1000, "Score not provided by evaluator", info.weight)

\* CriterionScore for a key the judge left out.
MissingCriterionScore(info) ==
    CriterionScore(3000, "Score not provided by evaluator", info.weight)

\* Mutant: the except branch fails closed, with the lowest mark.
ErrorScores_lowest(criteria) ==
    [key \in DOMAIN criteria |->
        CriterionScore(1000, "Error parsing response", criteria[key].weight)]

\* The except branch: default scores for every criterion.
ErrorScores(criteria) ==
    [key \in DOMAIN criteria |->
        CriterionScore(3000, "Error parsing response", criteria[key].weight)]

\* Mutant: a malformed member costs only its own key, which falls back like
\* a key the judge left out.
_parse_claude_response_per_key(response_text, criteria) ==
    LET loaded == JsonLoads(JsonBody(response_text.lines), response_text.doc)
        scores_dict == loaded.value
    IN  IF loaded.raised \/ InRaises(scores_dict) THEN ErrorScores(criteria)
        ELSE [key \in DOMAIN criteria |->
                IF key \in DOMAIN scores_dict.members /\ ~EntryRaises(scores_dict, key)
                THEN ParsedCriterionScore(scores_dict.members[key], criteria[key])
                ELSE MissingCriterionScore(criteria[key])]

_parse_claude_response(response_text, criteria) ==
    LET loaded == JsonLoads(JsonBody(response_text.lines), response_text.doc)
        scores_dict == loaded.value
        raised ==
            \/ loaded.raised
            \/ InRaises(scores_dict)
            \/ \E key \in DOMAIN criteria :
                    key \in DOMAIN scores_dict.members /\ EntryRaises(scores_dict, key)
    IN  IF raised THEN ErrorScores(criteria)
        ELSE [key \in DOMAIN criteria |->
                IF key \in DOMAIN scores_dict.members
                THEN ParsedCriterionScore(scores_dict.members[key], criteria[key])
                ELSE MissingCriterionScore(criteria[key])]

WeightedScore(ai_scores) == [key \in DOMAIN ai_scores |-> ai_scores[key].score * ai_scores[key].weight]

WeightOf(ai_scores) == [key \in DOMAIN ai_scores |-> ai_scores[key].weight]

\* Mutant: the plain mean of the scores, the weights forgotten.
_calculate_unweighted_score(ai_scores, criteria, tie) ==
    LET ones == [key \in DOMAIN ai_scores |-> 100]
        scaled == [key \in DOMAIN ai_scores |-> ai_scores[key].score * 100]
        total_score == SumOver(scaled, DOMAIN ai_scores)
        total_weight == SumOver(ones, DOMAIN ai_scores)
    IN  IF total_weight > 0 THEN Round2(total_score, total_weight, tie) ELSE 3000

_calculate_overall_score(ai_scores, criteria, tie) ==
    LET total_score == SumOver(WeightedScore(ai_scores), DOMAIN ai_scores)
        total_weight == SumOver(WeightOf(ai_scores), DOMAIN ai_scores)
    IN  IF total_weight > 0 THEN Round2(total_score, total_weight, tie) ELSE 3000

\* Mutant: any other tag is taken as bilingual_compliance, as the prompt
\* builder's else branch does.
_get_criteria_else_bilingual(use_case) ==
    IF use_case = "marketing_copy"
    THEN [raised |-> FALSE, value |-> MARKETING_COPY_CRITERIA]
    ELSE [raised |-> FALSE, value |-> BILINGUAL_COMPLIANCE_CRITERIA]

\* _get_criteria: [raised, value]; an unknown use case raises ValueError.
_get_criteria(use_case) ==
    IF use_case = "marketing_copy"
    THEN [raised |-> FALSE, value |-> MARKETING_COPY_CRITERIA]
    ELSE IF use_case = "bilingual_compliance"
    THEN [raised |-> FALSE, value |-> BILINGUAL_COMPLIANCE_CRITERIA]
    ELSE [raised |-> TRUE, value |-> MARKETING_COPY_CRITERIA]

(***************************************************************************)
(* evaluate_content.  judge is what client.messages.create and             *)
(* response.content[0].text produce: [kind, text] with kind "text" (the    *)
(* judge answered), "APIError" (the call raised: connection, auth,         *)
(* timeout) or "IndexError" (the response holds no content block).  uuid   *)
(* and now are uuid.uuid4() and datetime.now(), tie the side on which the  *)
(* float quotient of the aggregation falls at an exact half.  The result is *)
(* [raised, judge_called, value]: raised is "" or the exception, value the *)
(* returned Evaluation, None when the call raised.                         *)
(***************************************************************************)
evaluate_content(content, use_case, context, judge, uuid, now, tie) ==
    LET got == _get_criteria(use_case)
        criteria == got.value
        ai_scores == _parse_claude_response(judge.text, criteria)
        overall_score == _calculate_overall_score(ai_scores, criteria, tie)
        decision == get_decision(overall_score)
    IN  IF got.raised
        THEN [raised |-> "ValueError", judge_called |-> FALSE, value |-> None]
        ELSE IF judge.kind # "text"
        THEN [raised |-> judge.kind, judge_called |-> TRUE, value |-> None]
        ELSE [raised |-> "", judge_called |-> TRUE,
              value |-> Some(Evaluation(uuid, now, use_case, content, context,
                                        ai_scores, overall_score, decision))]

(***************************************************************************)
(* The human-judgment form of the Evaluate tab (app.py, lines 145-187)     *)
(***************************************************************************)
\* st.slider(min_value=1.0, max_value=5.0, step=0.5)
SliderValues == {1000 + 500 * i : i \in 0..8}

HumanWeighted(human_scores, criteria) == [k \in DOMAIN human_scores |-> human_scores[k] * criteria[k].weight]

CriteriaWeight(criteria) == [k \in DOMAIN criteria |-> criteria[k].weight]

\* human_overall = round(total_score / total_weight, 2)
HumanOverall(human_scores, criteria, tie) ==
    LET total_score == SumOver(HumanWeighted(human_scores, criteria), DOMAIN human_scores)
        total_weight == SumOver(CriteriaWeight(criteria), DOMAIN criteria)
    IN  Round2(total_score, total_weight, tie)

HumanScoreMap(human_scores, criteria) ==
    [k \in DOMAIN human_scores |->
        CriterionScore(human_scores[k], "Human rating", criteria[k].weight)]

\* criteria = MARKETING_COPY_CRITERIA if evaluation.use_case == "marketing_copy"
\*            else BILINGUAL_COMPLIANCE_CRITERIA
DisplayCriteria(evaluation) ==
    IF evaluation.use_case = "marketing_copy"
    THEN MARKETING_COPY_CRITERIA
    ELSE BILINGUAL_COMPLIANCE_CRITERIA

\* Mutant: the guard reads the optional feedback text ("" is falsy).
HasHumanJudgment_by_feedback(evaluation) ==
    evaluation.human_feedback # None /\ TheValue(evaluation.human_feedback) # ""

\* if evaluation.human_overall_score: (None and 0.0 are falsy)
HasHumanJudgment(evaluation) ==
    evaluation.human_overall_score # None /\ TheValue(evaluation.human_overall_score) # 0

\* Mutant: the feedback is stored only when the reviewer typed some.
SubmitHuman_feedback_if_given(evaluation, human_scores, human_feedback, tie) ==
    LET criteria == DisplayCriteria(evaluation)
        human_overall == HumanOverall(human_scores, criteria, tie)
        human_decision == get_decision(human_overall)
    IN  [evaluation EXCEPT
            !.human_scores = Some(HumanScoreMap(human_scores, criteria)),
            !.human_overall_score = Some(human_overall),
            !.human_decision = Some(human_decision),
            !.human_feedback = IF human_feedback = "" THEN None ELSE Some(human_feedback)]

\* The body of "if submit_human:": the evaluation after the four writes.
SubmitHuman(evaluation, human_scores, human_feedback, tie) ==
    LET criteria == DisplayCriteria(evaluation)
        human_overall == HumanOverall(human_scores, criteria, tie)
        human_decision == get_decision(human_overall)
    IN  [evaluation EXCEPT
            !.human_scores = Some(HumanScoreMap(human_scores, criteria)),
            !.human_overall_score = Some(human_overall),
            !.human_decision = Some(human_decision),
            !.human_feedback = Some(human_feedback)]

(***************************************************************************)
(* The Streamlit session (app.py).  evaluations is                         *)
(* st.session_state.evaluations, show_last_eval is                         *)
(* st.session_state.show_last_eval (absent reads as False), uuid_counter   *)
(* counts the ids uuid4 has issued (the n-th evaluation is created at      *)
(* instant n), outcome names the branch the last handler took.             *)
(***************************************************************************)
MaxEvals == 2

NoCall == [fn |-> "none"]

NoRet == [done |-> FALSE]

Returned(v) == [done |-> TRUE, value |-> v]

\* The selectbox offers the two registered use cases only.
SelectboxOptions == {"marketing_copy", "bilingual_compliance"}

AppContents == {"", "copy"}

AppContexts == {"Mother's Day campaign"}

JudgeText(lines, doc) == [kind |-> "text", text |-> [lines |-> lines, doc |-> doc]]

NullDoc == [type |-> "null", members |-> <<>>]

JudgeRaises(kind) == [kind |-> kind, text |-> [lines |-> <<>>, doc |-> NullDoc]]

ObjectEntry(score, explanation) ==
    [type |-> "object", fields |-> {"score", "explanation"},
     score |-> score, explanation |-> explanation, weight |-> 0]

WeightedEntry(score, explanation, weight) ==
    [type |-> "object", fields |-> {"score", "explanation", "weight"},
     score |-> score, explanation |-> explanation, weight |-> weight]

ObjectDoc(members) == [type |-> "object", members |-> members]

\* A JSON object giving every key of keys the same score.
UniformDoc(keys, score) ==
    ObjectDoc([k \in keys |-> ObjectEntry(JNumber(score), "Reads naturally")])

AllKeys == DOMAIN MARKETING_COPY_CRITERIA \cup DOMAIN BILINGUAL_COMPLIANCE_CRITERIA

AppJudges ==
    { JudgeRaises("APIError"),
      JudgeText(<<JUNK_LINE>>, NullDoc),
      JudgeText(<<FENCE_JSON, JSON_LINE, FENCE>>,
                UniformDoc(AllKeys \ {"persuasiveness", "fluency"}, 2000)) }

\* What a reviewer submits: the slider values and the feedback text.
AppHumanForms(criteria) ==
    { [human_scores |-> [k \in DOMAIN criteria |-> 1500], human_feedback |-> ""],
      [human_scores |-> [k \in DOMAIN criteria |-> IF criteria[k].weight >= 25 THEN 4000 ELSE 2000],
       human_feedback |-> "Tone is off"] }

\* Mutant: the record is stored before the judge is called, with neutral
\* scores, and stays when the call fails.
EvaluateHandler_stores_first(evals, show, content, use_case, context, judge, uuid, now, tie) ==
    IF content = ""
    THEN [evaluations |-> evals, show_last_eval |-> show, outcome |-> "EmptyContent"]
    ELSE LET result == evaluate_content(content, use_case, context, judge, uuid, now, tie)
             placeholder == Evaluation(uuid, now, use_case, content, context,
                                       ErrorScores(_get_criteria(use_case).value),
                                       3000, "human_review")
         IN  IF result.raised = ""
             THEN [evaluations |-> Append(evals, TheValue(result.value)),
                   show_last_eval |-> TRUE, outcome |-> "Evaluated"]
             ELSE [evaluations |-> Append(evals, placeholder), show_last_eval |-> FALSE,
                   outcome |-> result.raised]

\* The Evaluate button handler (app.py, lines 73-92):
\* [evaluations, show_last_eval, outcome] after the click.
EvaluateHandler(evals, show, content, use_case, context, judge, uuid, now, tie) ==
    IF content = ""
    THEN [evaluations |-> evals, show_last_eval |-> show, outcome |-> "EmptyContent"]
    ELSE LET result == evaluate_content(content, use_case, context, judge, uuid, now, tie)
         IN  IF result.raised = ""
             THEN [evaluations |-> Append(evals, TheValue(result.value)),
                   show_last_eval |-> TRUE, outcome |-> "Evaluated"]
             ELSE [evaluations |-> evals, show_last_eval |-> FALSE,
                   outcome |-> result.raised]

EvaluateButton(content, use_case, context, judge, tie) ==
    LET after == EvaluateHandler(evaluations, show_last_eval, content, use_case,
                                 context, judge, uuid_counter + 1, uuid_counter + 1, tie)
    IN  /\ Len(after.evaluations) <= MaxEvals
        /\ evaluations' = after.evaluations
        /\ show_last_eval' = after.show_last_eval
        /\ outcome' = after.outcome
        /\ uuid_counter' = IF after.outcome = "Evaluated" THEN uuid_counter + 1 ELSE uuid_counter
        /\ UNCHANGED <<call, ret>>

\* Mutant: the judgment is written to the first record of the collection
\* instead of the displayed one.
HumanJudgmentHandler_first_record(evals, human_scores, human_feedback, tie) ==
    LET evaluation == evals[Len(evals)]
    IN  IF HasHumanJudgment(evaluation)
        THEN [evaluations |-> evals, outcome |-> "AlreadyJudged"]
        ELSE [evaluations |-> [evals EXCEPT ![1] =
                                    SubmitHuman(evals[1], human_scores, human_feedback, tie)],
              outcome |-> "HumanJudged"]

\* The human-judgment section of the Evaluate tab (app.py, lines 94-187),
\* shown for evaluations[-1] when show_last_eval is set: a judged record
\* shows its recorded judgment and offers no form ("AlreadyJudged"); an
\* unjudged one takes the submitted form ("HumanJudged").
HumanJudgmentHandler(evals, human_scores, human_feedback, tie) ==
    LET evaluation == evals[Len(evals)]
    IN  IF HasHumanJudgment(evaluation)
        THEN [evaluations |-> evals, outcome |-> "AlreadyJudged"]
        ELSE [evaluations |-> [evals EXCEPT ![Len(evals)] =
                                    SubmitHuman(evaluation, human_scores, human_feedback, tie)],
              outcome |-> "HumanJudged"]

HumanJudgmentForm ==
    /\ show_last_eval
    /\ Len(evaluations) > 0
    /\ \E form \in AppHumanForms(DisplayCriteria(evaluations[Len(evaluations)])), tie \in TieDirections :
            LET after == HumanJudgmentHandler(evaluations, form.human_scores, form.human_feedback, tie)
            IN  /\ evaluations' = after.evaluations
                /\ outcome' = after.outcome
    /\ UNCHANGED <<show_last_eval, uuid_counter, call, ret>>

Init ==
    /\ evaluations = <<>>
    /\ show_last_eval = FALSE
    /\ uuid_counter = 0
    /\ outcome = "none"
    /\ call = NoCall
    /\ ret = NoRet

ClickEvaluate ==
    \E content \in AppContents, use_case \in SelectboxOptions,
       context \in AppContexts, judge \in AppJudges, tie \in TieDirections :
        EvaluateButton(content, use_case, context, judge, tie)

Next == ClickEvaluate \/ HumanJudgmentForm

Spec == Init /\ [][Next]_vars

(***************************************************************************)
(* The functions on their own.  SpecFn starts with one call (a function    *)
(* and its arguments, drawn from the sets below) and the action of that    *)
(* function applies it.                                                    *)
(***************************************************************************)
\* Overall scores, in thousandths, from below 1.0 to above 5.0.
DecisionScores == (0 - 1000) .. 7000

MalformedEntries ==
    { [type |-> "object", fields |-> {"explanation"}, score |-> JNull,
       explanation |-> "No score given", weight |-> 0],
      [type |-> "object", fields |-> {"score"}, score |-> JNumber(4000),
       explanation |-> "", weight |-> 0],
      [type |-> "object", fields |-> {"score", "explanation"}, score |-> JString("high"),
       explanation |-> "Strong copy", weight |-> 0],
      [type |-> "object", fields |-> {"score", "explanation"}, score |-> JNull,
       explanation |-> "Cannot tell", weight |-> 0],
      [type |-> "number", fields |-> {}, score |-> JNumber(4000),
       explanation |-> "", weight |-> 0],
      [type |-> "string", fields |-> {}, score |-> JNull,
       explanation |-> "", weight |-> 0] }

\* What the judge may give for one criterion in the documents of ManyDocs.
EntryOptions ==
    { ObjectEntry(JNumber(5000), "Excellent"),
      WeightedEntry(JString("4.5"), "Good", 90),
      ObjectEntry(JNumber(0), "Unusable"),
      [type |-> "object", fields |-> {"explanation"}, score |-> JNull,
       explanation |-> "No score given", weight |-> 0] }

\* Every JSON object over a subset of keys with members from EntryOptions.
ManyDocs(keys) ==
    UNION { {ObjectDoc(members) : members \in [present -> EntryOptions]} : present \in SUBSET keys }

\* Documents of every other shape: uniform scores in and out of range, one
\* malformed member among valid ones, unknown keys, and JSON that is no object.
FewDocs(keys) ==
    {UniformDoc(keys, score) : score \in {0 - 1000, 1000, 2499, 3200, 3999, 5000, 9000}}
    \cup {UniformDoc(keys \cup {"overall", "summary"}, 4000)}
    \cup {ObjectDoc([k \in keys |-> IF k = bad THEN entry
                                    ELSE ObjectEntry(JNumber(4000), "Good")]) :
            bad \in keys, entry \in MalformedEntries}
    \cup {ObjectDoc([k \in (keys \ {absent}) |-> IF k = bad THEN entry
                                    ELSE ObjectEntry(JNumber(4000), "Good")]) :
            bad \in keys, absent \in keys, entry \in MalformedEntries}
    \cup { [type |-> "array", members |-> <<>>],
           [type |-> "array", members |-> [k \in keys |-> ObjectEntry(JNull, "")]],
           [type |-> "string", members |-> <<>>],
           [type |-> "string", members |-> [k \in keys |-> ObjectEntry(JNull, "")]],
           [type |-> "number", members |-> <<>>],
           [type |-> "boolean", members |-> <<>>],
           NullDoc }

MaxLines == 3

LineKinds == {FENCE, FENCE_JSON, "", JSON_LINE, JUNK_LINE}

AllLayouts == UNION {[1..n -> LineKinds] : n \in 0..MaxLines}

FewLayouts == {<<JSON_LINE>>, <<"", FENCE_JSON, JSON_LINE, FENCE, "">>}

\* The documents every layout is tried with.
CoreDocs(keys) ==
    { UniformDoc(keys, 4000),
      UniformDoc(keys \ {"persuasiveness", "fluency"}, 9000),
      [type |-> "array", members |-> <<>>] }

\* Every layout with the core documents, the two common layouts with the rest.
LayoutTexts(keys) ==
    {[lines |-> lines, doc |-> doc] : lines \in AllLayouts, doc \in CoreDocs(keys)}
    \cup {[lines |-> lines, doc |-> doc] : lines \in FewLayouts, doc \in FewDocs(keys)}

ProbeTexts(keys) ==
    LayoutTexts(keys)
    \cup {[lines |-> lines, doc |-> doc] : lines \in FewLayouts, doc \in ManyDocs(keys)}

ProbeJudges(keys) ==
    {JudgeRaises("APIError"), JudgeRaises("IndexError")}
    \cup {[kind |-> "text", text |-> text] : text \in LayoutTexts(keys)}

ProbeUseCases == RegisteredUseCases \cup {"unsupported_tag"}

ProbeContents == {<<"", "">>, <<"copy", "Mother's Day campaign">>}

CriteriaOf(use_case) == _get_criteria(use_case).value

\* Score maps of any shape, the empty one and zero or negative weights included.
ProbeKeys == {"completeness", "accuracy", "fluency"}

ProbeCriterionScores ==
    {CriterionScore(score, "Reads naturally", weight) :
        score \in {0 - 1000, 3005, 3200, 3999, 5000}, weight \in {0 - 15, 0, 15, 30}}

ProbeScoreMaps == UNION {[present -> ProbeCriterionScores] : present \in SUBSET ProbeKeys}

\* Submitted forms: whole marks on every slider, and the default form (3.0
\* everywhere) with the fourth slider (grammar_fluency, terminology) at 1.5
\* or 4.5, whose exact weighted mean is halfway between two hundredths.
ProbeHumanScores(criteria) ==
    [DOMAIN criteria -> {1000, 3000, 5000}]
    \cup {[k \in DOMAIN criteria |-> IF k \in {"grammar_fluency", "terminology"} THEN v ELSE 3000] :
            v \in {1500, 4500}}

\* Records to serialize: what evaluate_content returns for the judge
\* texts of FewDocs, and the same records with a human judgment attached.
ProbeFreshRecords ==
    UNION { { TheValue(evaluate_content("copy", use_case, "Mother's Day campaign",
                                        JudgeText(<<JSON_LINE>>, doc), 1, 1, "down").value) :
                doc \in FewDocs(DOMAIN CriteriaOf(use_case)) } :
            use_case \in RegisteredUseCases }

ProbeJudgedRecords ==
    UNION { { SubmitHuman(evaluation, form.human_scores, form.human_feedback, "down") :
                form \in AppHumanForms(DisplayCriteria(evaluation)) } :
            evaluation \in ProbeFreshRecords }

ProbeRecords == ProbeFreshRecords \cup ProbeJudgedRecords

InitFn ==
    /\ evaluations = <<>>
    /\ show_last_eval = FALSE
    /\ uuid_counter = 0
    /\ outcome = "none"
    /\ ret = NoRet
    /\ \/ \E overall_score \in DecisionScores :
            call = [fn |-> "get_decision", overall_score |-> overall_score]
       \/ \E use_case \in RegisteredUseCases :
            \E response_text \in ProbeTexts(DOMAIN CriteriaOf(use_case)) :
                call = [fn |-> "_parse_claude_response", response_text |-> response_text,
                        use_case |-> use_case]
       \/ \E ai_scores \in ProbeScoreMaps, tie \in TieDirections :
            call = [fn |-> "_calculate_overall_score", ai_scores |-> ai_scores, tie |-> tie]
       \/ \E use_case \in ProbeUseCases, text \in ProbeContents, tie \in TieDirections :
            \E judge \in ProbeJudges(DOMAIN CriteriaOf(use_case)) :
                call = [fn |-> "evaluate_content", content |-> text[1], use_case |-> use_case,
                        context |-> text[2], judge |-> judge, tie |-> tie]
       \/ \E use_case \in RegisteredUseCases, tie \in TieDirections, agg_tie \in TieDirections :
            \E human_scores \in ProbeHumanScores(CriteriaOf(use_case)) :
                call = [fn |-> "submit_human", use_case |-> use_case,
                        human_scores |-> human_scores, tie |-> tie, agg_tie |-> agg_tie]
       \/ \E evaluation \in ProbeRecords :
            call = [fn |-> "round_trip", evaluation |-> evaluation]

Apply_get_decision ==
    /\ call.fn = "get_decision"
    /\ ret = NoRet
    /\ ret' = Returned(get_decision(call.overall_score))
    /\ UNCHANGED <<evaluations, show_last_eval, uuid_counter, outcome, call>>

Apply_parse_claude_response ==
    /\ call.fn = "_parse_claude_response"
    /\ ret = NoRet
    /\ ret' = Returned(_parse_claude_response(call.response_text, CriteriaOf(call.use_case)))
    /\ UNCHANGED <<evaluations, show_last_eval, uuid_counter, outcome, call>>

Apply_calculate_overall_score ==
    /\ call.fn = "_calculate_overall_score"
    /\ ret = NoRet
    /\ ret' = Returned(_calculate_overall_score(call.ai_scores, MARKETING_COPY_CRITERIA, call.tie))
    /\ UNCHANGED <<evaluations, show_last_eval, uuid_counter, outcome, call>>

Apply_evaluate_content ==
    /\ call.fn = "evaluate_content"
    /\ ret = NoRet
    /\ ret' = Returned(evaluate_content(call.content, call.use_case, call.context,
                                        call.judge, 1, 1, call.tie))
    /\ UNCHANGED <<evaluations, show_last_eval, uuid_counter, outcome, call>>

\* A fresh record of the use case, as evaluate_content returns it.
FreshEvaluation(use_case) ==
    Evaluation(1, 1, use_case, "copy", "", ErrorScores(CriteriaOf(use_case)), 3000, "human_review")

\* The submit handler on a fresh record, next to the aggregator applied to
\* the score map the handler stored.
Apply_submit_human ==
    /\ call.fn = "submit_human"
    /\ ret = NoRet
    /\ LET evaluation == SubmitHuman(FreshEvaluation(call.use_case), call.human_scores,
                                     "Tone is off", call.tie)
       IN  ret' = Returned([evaluation |-> evaluation,
                            aggregated |-> _calculate_overall_score(
                                TheValue(evaluation.human_scores),
                                CriteriaOf(call.use_case), call.agg_tie)])
    /\ UNCHANGED <<evaluations, show_last_eval, uuid_counter, outcome, call>>

\* to_dict, then from_dict on its result.
Apply_round_trip ==
    /\ call.fn = "round_trip"
    /\ ret = NoRet
    /\ LET data == to_dict(call.evaluation)
       IN  ret' = Returned([data |-> data, evaluation |-> from_dict(data)])
    /\ UNCHANGED <<evaluations, show_last_eval, uuid_counter, outcome, call>>

NextFn ==
    \/ Apply_get_decision
    \/ Apply_parse_claude_response
    \/ Apply_calculate_overall_score
    \/ Apply_evaluate_content
    \/ Apply_submit_human
    \/ Apply_round_trip

SpecFn == InitFn /\ [][NextFn]_vars

(***************************************************************************)
(* Properties                                                              *)
(***************************************************************************)
Decisions == {"auto_pass", "auto_fail", "human_review"}

Applied(fn) == call.fn = fn /\ ret.done

\* C1: for every overall score, in or out of [1.0, 5.0], get_decision
\* returns one label: auto_pass iff score >= 4.0, auto_fail iff score < 2.5,
\* human_review otherwise (so 4.0 passes and 2.5 goes to review).
C1_DecisionThresholds ==
    Applied("get_decision") =>
        /\ ret.value \in Decisions
        /\ ((ret.value = "auto_pass") <=> (call.overall_score >= 4000))
        /\ ((ret.value = "auto_fail") <=> (call.overall_score < 2500))
        /\ ((ret.value = "human_review") <=>
                (call.overall_score >= 2500 /\ call.overall_score < 4000))

C1_Witness ==
    Applied("get_decision") /\ call.overall_score = 4000 /\ ret.value = "auto_pass"

\* C2: whatever the judge text, the parser returns a score map whose keys are
\* exactly the criteria set's keys, each with the registry weight.
C2_ParserKeysAndWeights ==
    Applied("_parse_claude_response") =>
        LET criteria == CriteriaOf(call.use_case)
        IN  /\ DOMAIN ret.value = DOMAIN criteria
            /\ \A key \in DOMAIN criteria : ret.value[key].weight = criteria[key].weight

\* The judge gave a criterion with a weight of its own and unknown keys
\* aside, and the parser used the entry.
C2_Witness ==
    /\ Applied("_parse_claude_response")
    /\ call.response_text.doc.type = "object"
    /\ \E key \in DOMAIN ret.value :
            /\ key \in DOMAIN call.response_text.doc.members
            /\ "weight" \in call.response_text.doc.members[key].fields
            /\ call.response_text.doc.members[key].weight # ret.value[key].weight
            /\ ret.value[key].explanation = "Good"

\* The text handed to json.loads is not JSON.
Unparseable(text) == JsonLoads(JsonBody(text.lines), text.doc).raised

\* C3: when the judge text is not parseable JSON, evaluate_content still
\* returns a record: every criterion has score 3.0, "Error parsing response"
\* and its registry weight; the overall score is 3.0, the decision human_review.
C3_UnparseableFallsBack ==
    ( /\ Applied("evaluate_content")
      /\ call.use_case \in RegisteredUseCases
      /\ call.judge.kind = "text"
      /\ Unparseable(call.judge.text) ) =>
        /\ ret.value.raised = ""
        /\ ret.value.value # None
        /\ LET evaluation == TheValue(ret.value.value)
               criteria == CriteriaOf(call.use_case)
           IN  /\ DOMAIN evaluation.ai_scores = DOMAIN criteria
               /\ \A key \in DOMAIN criteria :
                    evaluation.ai_scores[key] =
                        CriterionScore(3000, "Error parsing response", criteria[key].weight)
               /\ evaluation.ai_overall_score = 3000
               /\ evaluation.ai_decision = "human_review"

C3_Witness ==
    /\ Applied("evaluate_content")
    /\ call.judge.kind = "text"
    /\ call.judge.text.lines = <<JUNK_LINE>>
    /\ ret.value.value # None
    /\ TheValue(ret.value.value).ai_decision = "human_review"

\* The judge text parsed as a JSON object that lacks some criterion key.
ObjectLackingKeys ==
    /\ Applied("_parse_claude_response")
    /\ ~Unparseable(call.response_text)
    /\ call.response_text.doc.type = "object"
    /\ DOMAIN CriteriaOf(call.use_case) \ DOMAIN call.response_text.doc.members # {}

\* The member is an object with an explanation and a score float() accepts.
WellFormed(entry) ==
    /\ entry.type = "object"
    /\ {"score", "explanation"} \subseteq entry.fields
    /\ ~Float(entry.score).raised

\* The absent keys have the individual fallback and the well-formed present
\* keys their parsed score, as a float, and their parsed explanation.
PartialFallback ==
    LET criteria == CriteriaOf(call.use_case)
        members == call.response_text.doc.members
    IN  \A key \in DOMAIN criteria :
            /\ key \notin DOMAIN members =>
                /\ ret.value[key].score = 3000
                /\ ret.value[key].explanation = "Score not provided by evaluator"
            /\ (key \in DOMAIN members /\ WellFormed(members[key])) =>
                /\ ret.value[key].score = Float(members[key].score).value
                /\ ret.value[key].explanation = members[key].explanation

\* C4, as claimed: whenever the judge text parses as a JSON object lacking
\* some criterion keys, the absent keys get 3.0 and "Score not provided by
\* evaluator" and the present keys keep their parsed values.
C4_Original == ObjectLackingKeys => PartialFallback

\* C4, amended: the same, provided every criterion key that is present has a
\* well-formed member (an object with an explanation and a score float()
\* accepts).
C4_PartialFallback ==
    ( /\ ObjectLackingKeys
      /\ \A key \in DOMAIN CriteriaOf(call.use_case) \cap DOMAIN call.response_text.doc.members :
            WellFormed(call.response_text.doc.members[key]) ) => PartialFallback

\* One key absent, another present with a string score that float() converts.
C4_Witness ==
    /\ ObjectLackingKeys
    /\ \E absent \in DOMAIN ret.value, present \in DOMAIN ret.value :
            /\ ret.value[absent].explanation = "Score not provided by evaluator"
            /\ present \in DOMAIN call.response_text.doc.members
            /\ call.response_text.doc.members[present].score = JString("4.5")
            /\ ret.value[present].score = 4500

HumanFields(evaluation) ==
    <<evaluation.human_scores, evaluation.human_overall_score,
      evaluation.human_decision, evaluation.human_feedback>>

\* C5: a human judgment is attached at most once per record.  A step that
\* attaches one starts from a record with no human field set and sets all
\* four; once set, the four fields of a record never change; and the form
\* on a judged record is refused (AlreadyJudged) with no record changed.
C5_AttachAtMostOnce ==
    [][ /\ \A i \in 1..Len(evaluations) :
            HumanFields(evaluations[i]) # <<None, None, None, None>> =>
                /\ i <= Len(evaluations')
                /\ HumanFields(evaluations'[i]) = HumanFields(evaluations[i])
        /\ outcome' = "HumanJudged" =>
            /\ HumanFields(evaluations[Len(evaluations)]) = <<None, None, None, None>>
            /\ \A j \in 1..4 : HumanFields(evaluations'[Len(evaluations')])[j] # None
        /\ outcome' = "AlreadyJudged" => evaluations' = evaluations
      ]_vars

\* The form came up again on a record that already had its judgment.
C5_Witness ==
    /\ outcome = "AlreadyJudged"
    /\ evaluations[Len(evaluations)].human_feedback = Some("")

\* C6: evaluate_content with an unregistered use case raises the unknown
\* use case error (ValueError) before the judge is called and returns no
\* record.
C6_UnknownUseCase ==
    (Applied("evaluate_content") /\ call.use_case \notin {"marketing_copy", "bilingual_compliance"}) =>
        /\ ret.value.raised = "ValueError"
        /\ ~ret.value.judge_called
        /\ ret.value.value = None

C6_Witness ==
    /\ Applied("evaluate_content")
    /\ call.use_case = "unsupported_tag"
    /\ call.judge.kind = "text"
    /\ ret.value.raised = "ValueError"

\* C7: when the judge call fails, the click ends with the error and the
\* stored evaluations are exactly what they were: no record added, no field
\* of an existing record changed, no id used.
C7_JudgeFailureLeavesState ==
    [][ outcome' = "APIError" =>
            /\ evaluations' = evaluations
            /\ uuid_counter' = uuid_counter ]_vars

\* The judge failed while a judged record was in the collection.
C7_Witness ==
    /\ outcome = "APIError"
    /\ Len(evaluations) > 0
    /\ evaluations[Len(evaluations)].human_scores # None

TotalScore(ai_scores) ==
    SumOver([k \in DOMAIN ai_scores |-> ai_scores[k].score * ai_scores[k].weight], DOMAIN ai_scores)

TotalWeight(ai_scores) ==
    SumOver([k \in DOMAIN ai_scores |-> ai_scores[k].weight], DOMAIN ai_scores)

\* v is a multiple of a hundredth nearest to total_score / total_weight.
IsMeanRounded(v, total_score, total_weight) ==
    /\ v % 10 = 0
    /\ 2 * (v * total_weight - total_score) <= 10 * total_weight
    /\ 2 * (total_score - v * total_weight) <= 10 * total_weight

\* Every entry has the score s.
AllScoresEqual(s) ==
    /\ call.ai_scores # <<>>
    /\ \A k \in DOMAIN call.ai_scores : call.ai_scores[k].score = s

\* C8, as claimed: the aggregate is the weighted mean rounded to 2 decimals,
\* 3.0 when the map is empty or the total weight is zero, and a map whose
\* scores all equal s, with nonzero weights, aggregates to s.
C8_Original ==
    Applied("_calculate_overall_score") =>
        /\ IF call.ai_scores = <<>> \/ TotalWeight(call.ai_scores) = 0
           THEN ret.value = 3000
           ELSE TotalWeight(call.ai_scores) > 0 =>
                    IsMeanRounded(ret.value, TotalScore(call.ai_scores), TotalWeight(call.ai_scores))
        /\ \A s \in {call.ai_scores[k].score : k \in DOMAIN call.ai_scores} :
                ( /\ AllScoresEqual(s)
                  /\ \A k \in DOMAIN call.ai_scores : call.ai_scores[k].weight # 0 ) =>
                    ret.value = s

\* C8, amended: the aggregate is the weighted mean rounded to 2 decimals,
\* 3.0 when the map is empty or the total weight is zero or negative, and a
\* map whose scores all equal s, with positive weights, aggregates to s
\* rounded to 2 decimals, which is s itself when s has at most two decimals.
C8_WeightedMean ==
    Applied("_calculate_overall_score") =>
        /\ IF call.ai_scores = <<>> \/ TotalWeight(call.ai_scores) <= 0
           THEN ret.value = 3000
           ELSE IsMeanRounded(ret.value, TotalScore(call.ai_scores), TotalWeight(call.ai_scores))
        /\ \A s \in {call.ai_scores[k].score : k \in DOMAIN call.ai_scores} :
                ( /\ AllScoresEqual(s)
                  /\ \A k \in DOMAIN call.ai_scores : call.ai_scores[k].weight > 0 ) =>
                    /\ IsMeanRounded(ret.value, s, 1)
                    /\ s % 10 = 0 => ret.value = s

\* Two criteria of different weight and different score were aggregated.
C8_Witness ==
    /\ Applied("_calculate_overall_score")
    /\ \E a \in DOMAIN call.ai_scores, b \in DOMAIN call.ai_scores :
            /\ call.ai_scores[a].weight = 30 /\ call.ai_scores[b].weight = 15
            /\ call.ai_scores[a].score = 5000 /\ call.ai_scores[b].score = 3200
    /\ ret.value # 3000

\* C9, as claimed: the human overall score is what the aggregator returns
\* for the stored human score map, and the human decision is get_decision
\* of that score.
C9_HumanSameAsAggregator ==
    Applied("submit_human") =>
        /\ ret.value.evaluation.human_overall_score = Some(ret.value.aggregated)
        /\ ret.value.evaluation.human_decision =
                Some(get_decision(TheValue(ret.value.evaluation.human_overall_score)))

\* C10, as claimed: every record evaluate_content returns has its overall
\* score and each criterion score within [1.0, 5.0].
C10_ScoresInRange ==
    (Applied("evaluate_content") /\ ret.value.value # None) =>
        LET evaluation == TheValue(ret.value.value)
        IN  /\ evaluation.ai_overall_score >= 1000
            /\ evaluation.ai_overall_score <= 5000
            /\ \A key \in DOMAIN evaluation.ai_scores :
                    /\ evaluation.ai_scores[key].score >= 1000
                    /\ evaluation.ai_scores[key].score <= 5000

NoHumanFields(evaluation) == HumanFields(evaluation) = <<None, None, None, None>>

AllHumanFields(evaluation) == \A j \in 1..4 : HumanFields(evaluation)[j] # None

\* The ai fields of a record hold a score for every criterion of its use
\* case, a number and a decision label.
AiFieldsPopulated(evaluation) ==
    /\ evaluation.use_case \in RegisteredUseCases
    /\ DOMAIN evaluation.ai_scores = DOMAIN CriteriaOf(evaluation.use_case)
    /\ evaluation.ai_overall_score \in Int
    /\ evaluation.ai_decision \in Decisions

\* C11: in every reachable state each stored record has its four human
\* fields all absent or all set, never only some of them; and the record a
\* successful evaluation adds has its ai fields populated and its four
\* human fields absent.
C11_HumanFieldsAllOrNone ==
    /\ [](\A i \in 1..Len(evaluations) :
            NoHumanFields(evaluations[i]) \/ AllHumanFields(evaluations[i]))
    /\ [][ outcome' = "Evaluated" =>
                /\ Len(evaluations') = Len(evaluations) + 1
                /\ NoHumanFields(evaluations'[Len(evaluations')])
                /\ AiFieldsPopulated(evaluations'[Len(evaluations')]) ]_vars

\* A record judged with an empty feedback text, followed by a fresh record.
C11_Witness ==
    /\ Len(evaluations) = 2
    /\ outcome = "Evaluated"
    /\ AllHumanFields(evaluations[1])
    /\ evaluations[1].human_feedback = Some("")
    /\ NoHumanFields(evaluations[2])

\* The eight fields evaluate_content fills.
AiFields(evaluation) ==
    <<evaluation.id, evaluation.timestamp, evaluation.use_case, evaluation.content,
      evaluation.context, evaluation.ai_scores, evaluation.ai_overall_score,
      evaluation.ai_decision>>

\* C12: a step that attaches a human judgment changes only the four human
\* fields of the displayed (last) record: its other eight fields and every
\* other record are unchanged; and no step removes a record: the collection
\* never shrinks and every position keeps its record's id.
C12_AttachFrame ==
    [][ /\ outcome' = "HumanJudged" =>
            /\ Len(evaluations') = Len(evaluations)
            /\ AiFields(evaluations'[Len(evaluations)]) = AiFields(evaluations[Len(evaluations)])
            /\ HumanFields(evaluations'[Len(evaluations)]) # HumanFields(evaluations[Len(evaluations)])
            /\ \A i \in 1..(Len(evaluations) - 1) : evaluations'[i] = evaluations[i]
        /\ Len(evaluations') >= Len(evaluations)
        /\ \A i \in 1..Len(evaluations) : evaluations'[i].id = evaluations[i].id
      ]_vars

\* A judgment was attached to the second record while the first, judged
\* earlier, was in the collection.
C12_Witness ==
    /\ outcome = "HumanJudged"
    /\ Len(evaluations) = 2
    /\ AllHumanFields(evaluations[1])
    /\ AllHumanFields(evaluations[2])
    /\ evaluations[1].human_feedback # evaluations[2].human_feedback

\* The text is a fence line, the JSON object and a fence line, blank lines
\* aside.
FencedObject(text) ==
    /\ text.doc.type = "object"
    /\ \E opening \in FenceLines, closing \in FenceLines :
            SelectSeq(text.lines, IsNotBlank) = <<opening, JSON_LINE, closing>>

Unwrapped(text) == [lines |-> <<JSON_LINE>>, doc |-> text.doc]

\* C13: a judge text made of a leading fence line, a JSON object and a
\* trailing fence line parses to the score map the JSON object alone parses
\* to.
C13_FenceStripping ==
    (Applied("_parse_claude_response") /\ FencedObject(call.response_text)) =>
        ret.value = _parse_claude_response(Unwrapped(call.response_text), CriteriaOf(call.use_case))

\* A fenced object (opening fence with the word json) was parsed and the
\* judge's entries, not a fallback, came out.
C13_Witness ==
    /\ Applied("_parse_claude_response")
    /\ call.response_text.lines = <<FENCE_JSON, JSON_LINE, FENCE>>
    /\ call.response_text.doc.type = "object"
    /\ \E key \in DOMAIN ret.value :
            /\ ret.value[key].score = 4000
            /\ ret.value[key].explanation = "Reads naturally"

\* C14: from_dict applied to to_dict of a record gives a record equal to
\* the original in every field, the nested criterion scores included, for
\* records without a human judgment and for records with one.
C14_RoundTrip ==
    Applied("round_trip") => ret.value.evaluation = call.evaluation

\* A record with a human judgment went through to_dict, where its nested
\* scores became dicts, and from_dict gave them back as criterion scores.
C14_Witness ==
    /\ Applied("round_trip")
    /\ call.evaluation.human_scores # None
    /\ \A k \in DOMAIN TheValue(call.evaluation.human_scores) :
            /\ IsDict(TheValue(ret.value.data.items.human_scores)[k])
            /\ ~IsDict(TheValue(ret.value.evaluation.human_scores)[k])
    /\ ret.value.evaluation.human_feedback = Some("")

\* The judge text parsed as a JSON object in which some criterion key is
\* present with a malformed member.
ObjectWithMalformedEntry ==
    /\ Applied("_parse_claude_response")
    /\ ~Unparseable(call.response_text)
    /\ call.response_text.doc.type = "object"
    /\ \E key \in DOMAIN CriteriaOf(call.use_case) \cap DOMAIN call.response_text.doc.members :
            ~WellFormed(call.response_text.doc.members[key])

\* C15: when the judge text parses as a JSON object in which some criterion
\* key is present with a malformed member, every criterion, those with
\* valid members included, gets 3.0 and "Error parsing response".
C15_MalformedEntryDiscardsAll ==
    ObjectWithMalformedEntry =>
        /\ DOMAIN ret.value = DOMAIN CriteriaOf(call.use_case)
        /\ \A key \in DOMAIN ret.value :
                /\ ret.value[key].score = 3000
                /\ ret.value[key].explanation = "Error parsing response"

\* One member had a score float() rejects, another was valid, a third key
\* was absent: the valid one came out as the error fallback too.
C15_Witness ==
    /\ ObjectWithMalformedEntry
    /\ \E bad \in DOMAIN ret.value, good \in DOMAIN ret.value, absent \in DOMAIN ret.value :
            /\ bad \in DOMAIN call.response_text.doc.members
            /\ call.response_text.doc.members[bad].score = JString("high")
            /\ good \in DOMAIN call.response_text.doc.members
            /\ WellFormed(call.response_text.doc.members[good])
            /\ call.response_text.doc.members[good].explanation = "Good"
            /\ ret.value[good].explanation = "Error parsing response"
            /\ absent \notin DOMAIN call.response_text.doc.members
            /\ ret.value[absent].explanation = "Error parsing response"

====
